---- MODULE Spec2Model ----
(***************************************************************************)
(* The spending-summary pipeline of ewfx/aidhp-sapiens:                    *)
(*   FinancialDataLoader.load_all_data, _load_transaction_data             *)
(*                                               (data_loader.py)          *)
(*   DataExtractor.__init__, get_spending_summary,                         *)
(*   _generate_spending_summary, _categorize_transaction,                  *)
(*   get_user_interests                          (data_extractor.py)       *)
(*   LLMInteraction._generate_response, get_product_recommendations,       *)
(*   get_credit_card_recommendations             (llm_interaction.py)      *)
(*   main, update_recommendations, save_json     (main.py)                 *)
(* A DataFrame is a record of its column layout and its sequence of rows;  *)
(* floats are integers (amounts) or exact fractions (mean, percentage).    *)
(***************************************************************************)
EXTENDS Integers, Sequences, FiniteSets, TLC

(***************************************************************************)
(* Bounds of the model.                                                    *)
(***************************************************************************)
\* rows of the bank table plus rows of the credit-card table
MaxRows == 2
\* raw amounts are 1..MaxAmount
MaxAmount == 2
\* posts of a social-media table
MaxPosts == 2
\* posts of the table that is added to another
MaxMore == 1
\* runs of the program, one after the other, that complete
MaxRuns == 2

(***************************************************************************)
(* Program constants.                                                      *)
(***************************************************************************)
\* .nlargest(5)
TopN == 5
\* timedelta(days=30)
LastMonthDays == 30

(***************************************************************************)
(* Python str: lower() and the substring test `k in s`.                    *)
(***************************************************************************)
UpperToLower ==
    [c \in {"A","B","C","D","E","F","G","H","I","J","K","L","M","N","O","P",
            "Q","R","S","T","U","V","W","X","Y","Z"} |->
        CASE c = "A" -> "a" [] c = "B" -> "b" [] c = "C" -> "c" [] c = "D" -> "d"
          [] c = "E" -> "e" [] c = "F" -> "f" [] c = "G" -> "g" [] c = "H" -> "h"
          [] c = "I" -> "i" [] c = "J" -> "j" [] c = "K" -> "k" [] c = "L" -> "l"
          [] c = "M" -> "m" [] c = "N" -> "n" [] c = "O" -> "o" [] c = "P" -> "p"
          [] c = "Q" -> "q" [] c = "R" -> "r" [] c = "S" -> "s" [] c = "T" -> "t"
          [] c = "U" -> "u" [] c = "V" -> "v" [] c = "W" -> "w" [] c = "X" -> "x"
          [] c = "Y" -> "y" [] c = "Z" -> "z"]

RECURSIVE LowerFrom(_, _)
LowerFrom(s, i) ==
    IF i > Len(s) THEN ""
    ELSE LET c == SubSeq(s, i, i)
         IN  (IF c \in DOMAIN UpperToLower THEN UpperToLower[c] ELSE c)
                 \o LowerFrom(s, i + 1)

\* str.lower()
Lower(s) == LowerFrom(s, 1)

\* keyword in s
Contains(s, k) ==
    \E i \in 1..(Len(s) - Len(k) + 1) : SubSeq(s, i, i + Len(k) - 1) = k

(***************************************************************************)
(* Missing values.  A missing string cell (NaN in an object column) is     *)
(* NA; an amount cell is a number, NaN, or text that is not a number.      *)
(***************************************************************************)
NA == "NaN"
Num(v) == [t |-> "num", v |-> v]
NaN == [t |-> "nan", v |-> 0]
Text == [t |-> "str", v |-> 0]
IsNum(c) == c.t = "num"

\* a conversion that makes a number of what is not one
ToNumeric_One(c) == IF IsNum(c) THEN c ELSE Num(1)

\* pd.to_numeric(cell, errors='coerce')
ToNumeric(c) == IF IsNum(c) THEN c ELSE NaN

\* cell *= -1
Negate(c) == IF IsNum(c) THEN Num(0 - c.v) ELSE c

\* .str.lower().str.contains('debit', na=False) on one Transaction Type cell
IsDebitType(ty) == ty # NA /\ Contains(Lower(ty), "debit")

(***************************************************************************)
(* _categorize_transaction: the keyword table in dictionary order.         *)
(***************************************************************************)
categories ==
    << [category |-> "dining",         keywords |-> <<"restaurant", "starbucks">>],
       [category |-> "shopping",       keywords |-> <<"amazon", "walmart", "costco",
                                                      "best buy", "nike", "apple">>],
       [category |-> "entertainment",  keywords |-> <<"netflix", "spotify">>],
       [category |-> "travel",         keywords |-> <<"airline", "hotel", "airbnb", "uber">>],
       [category |-> "transportation", keywords |-> <<"tesla", "supercharger">>],
       [category |-> "fitness",        keywords |-> <<"gym">>],
       [category |-> "insurance",      keywords |-> <<"insurance">>],
       [category |-> "investments",    keywords |-> <<"equity", "mutual funds">>],
       [category |-> "electronics",    keywords |-> <<"electronic", "gadgets">>],
       [category |-> "uncategorized",  keywords |-> <<>>] >>

\* any(keyword in merchant for keyword in keywords)
AnyKeyword(merchant, keywords) ==
    \E j \in 1..Len(keywords) : Contains(merchant, keywords[j])

RECURSIVE CategorizeFrom(_, _)
CategorizeFrom(merchant, i) ==
    IF i > Len(categories) THEN "uncategorized"
    ELSE IF AnyKeyword(merchant, categories[i].keywords) THEN categories[i].category
    ELSE CategorizeFrom(merchant, i + 1)

\* the last category of the table with a matching keyword
RECURSIVE CategorizeLastFrom(_, _)
CategorizeLastFrom(merchant, i) ==
    IF i < 1 THEN "uncategorized"
    ELSE IF AnyKeyword(merchant, categories[i].keywords) THEN categories[i].category
    ELSE CategorizeLastFrom(merchant, i - 1)

_categorize_transaction_LastMatch(merchant) ==
    CategorizeLastFrom(Lower(merchant), Len(categories))

_categorize_transaction(merchant) == CategorizeFrom(Lower(merchant), 1)

(***************************************************************************)
(* Calendar dates: datetime.now(), timedelta, strftime('%Y-%m').           *)
(***************************************************************************)
Date(y, m, d) == [y |-> y, m |-> m, d |-> d]
NoDate == Date(0, 0, 0)

IsLeap(y) == (y % 4 = 0 /\ y % 100 # 0) \/ y % 400 = 0

DaysInMonth(y, m) ==
    IF m = 2 THEN (IF IsLeap(y) THEN 29 ELSE 28)
    ELSE IF m \in {4, 6, 9, 11} THEN 30 ELSE 31

\* date - timedelta(days=n)
RECURSIVE MinusDays(_, _)
MinusDays(dt, n) ==
    IF n < dt.d THEN Date(dt.y, dt.m, dt.d - n)
    ELSE LET py == IF dt.m = 1 THEN dt.y - 1 ELSE dt.y
             pm == IF dt.m = 1 THEN 12 ELSE dt.m - 1
         IN  MinusDays(Date(py, pm, DaysInMonth(py, pm)), n - dt.d)

\* strftime('%Y-%m')
Strftime(dt) ==
    ToString(dt.y) \o "-" \o (IF dt.m < 10 THEN "0" ELSE "") \o ToString(dt.m)

(***************************************************************************)
(* Python's ordering of str, which groupby uses to sort its keys.          *)
(***************************************************************************)
\* the printable ASCII characters but for chr(34), chr(92) and chr(96), in runs:
\* chr(32)..chr(33), chr(35)..chr(91), chr(93)..chr(95), chr(97)..chr(126)
AsciiRuns == << [first |-> 32, chars |-> " !"],
               [first |-> 35, chars |-> "#$%&'()*+,-./0123456789:;<=>?@ABCDEFGHIJKLMNOPQRSTUVWXYZ["],
               [first |-> 93, chars |-> "]^_"],
               [first |-> 97, chars |-> "abcdefghijklmnopqrstuvwxyz{|}~"] >>

\* ord(c)
Ord == [c \in UNION {{SubSeq(AsciiRuns[k].chars, i, i) : i \in 1..Len(AsciiRuns[k].chars)}
                        : k \in DOMAIN AsciiRuns} |->
           LET k == CHOOSE k \in DOMAIN AsciiRuns :
                        \E i \in 1..Len(AsciiRuns[k].chars) :
                            SubSeq(AsciiRuns[k].chars, i, i) = c
               i == CHOOSE i \in 1..Len(AsciiRuns[k].chars) :
                        SubSeq(AsciiRuns[k].chars, i, i) = c
           IN  AsciiRuns[k].first + i - 1]

RECURSIVE StrLessFrom(_, _, _)
StrLessFrom(a, b, i) ==
    IF i > Len(b) THEN FALSE
    ELSE IF i > Len(a) THEN TRUE
    ELSE LET x == Ord[SubSeq(a, i, i)]
             y == Ord[SubSeq(b, i, i)]
         IN  IF x # y THEN x < y ELSE StrLessFrom(a, b, i + 1)

\* a < b on str
StrLess(a, b) == StrLessFrom(a, b, 1)

\* sorted(S) for a finite set of str
RECURSIVE SortedStrings(_)
SortedStrings(S) ==
    IF S = {} THEN <<>>
    ELSE LET least == CHOOSE a \in S : \A b \in S \ {a} : StrLess(a, b)
         IN  <<least>> \o SortedStrings(S \ {least})

(***************************************************************************)
(* DataFrames.  A transaction table has one amount column, named           *)
(* amount_column, a Date and a Receiver/Merchant column (Name), and may    *)
(* have a Transaction Type and a Category column.  A cell of a column the  *)
(* table does not have is NA.                                              *)
(***************************************************************************)
AMOUNT_USD == "Amount (USD)"
AMOUNT_DOLLAR == "Amount ($)"

\* pd.DataFrame()
EmptyFrame ==
    [amount_column |-> AMOUNT_USD, has_type |-> FALSE, has_category |-> FALSE,
     rows |-> <<>>]

\* df.empty
IsEmpty(df) == df.rows = <<>>

\* df.loc[df['Transaction Type'].str.lower().str.contains('debit', na=False),
\*        amount_column] *= -1, after pd.to_numeric(..., errors='coerce')
FlipDebits(df) ==
    [df EXCEPT !.rows =
        [i \in DOMAIN df.rows |->
            LET r == df.rows[i]
                a == ToNumeric(r.Amount)
            IN  [r EXCEPT !.Amount =
                    IF df.has_type /\ IsDebitType(r.Type) THEN Negate(a) ELSE a]]]

\* FinancialDataLoader._load_transaction_data on the table read_csv gives;
\* a file that cannot be read gives pd.DataFrame()
_load_transaction_data(df) == IF IsEmpty(df) THEN EmptyFrame ELSE FlipDebits(df)

\* frame.merge(receiver_categories, on='Receiver', how='left') on the rows:
\* one output row per matching map row, one with a missing Category if none
RECURSIVE MergeRows(_, _)
MergeRows(rows, rc) ==
    IF rows = <<>> THEN <<>>
    ELSE LET r == Head(rows)
             hits == SelectSeq(rc, LAMBDA e : e.Receiver = r.Name)
             out == IF hits = <<>> THEN << [r EXCEPT !.Category = NA] >>
                    ELSE [j \in DOMAIN hits |-> [r EXCEPT !.Category = hits[j].Category]]
         IN  out \o MergeRows(Tail(rows), rc)

\* frame['Category'] = frame['Category'].fillna('Other')
FillOther(df) ==
    [df EXCEPT !.rows =
        [i \in DOMAIN df.rows |->
            [df.rows[i] EXCEPT !.Category = IF @ = NA THEN "Other" ELSE @]]]

\* the merge with receiver_categories followed by fillna('Other')
MergeCategories(df, rc) ==
    FillOther([df EXCEPT !.rows = MergeRows(df.rows, rc), !.has_category = TRUE])

(***************************************************************************)
(* DataExtractor.__init__.  self.transactions is the caller's table        *)
(* object: the column assignments write into it; merge makes a new table.  *)
(***************************************************************************)
\* what __init__ leaves in the caller's bank table
InitTransactionsInPlace(df) == IF IsEmpty(df) THEN df ELSE FlipDebits(df)

\* self.transactions after __init__
InitTransactions(df, rc) ==
    IF IsEmpty(df) THEN df
    ELSE IF ~df.has_category /\ rc # <<>> THEN MergeCategories(FlipDebits(df), rc)
    ELSE FlipDebits(df)

\* what __init__ leaves in the caller's credit-card table
InitCreditCardInPlace(df) ==
    IF IsEmpty(df) THEN df
    ELSE IF df.has_category THEN FillOther(FlipDebits(df))
    ELSE FlipDebits(df)

\* self.credit_card_transactions after __init__
InitCreditCard(df, rc) ==
    IF IsEmpty(df) THEN df
    ELSE IF df.has_category THEN FillOther(FlipDebits(df))
    ELSE IF rc # <<>> THEN MergeCategories(FlipDebits(df), rc)
    ELSE FlipDebits(df)

(***************************************************************************)
(* Series and dictionaries.  A dictionary is the sequence of its items in  *)
(* insertion order; a fraction n/d stands for the float n/d, and a         *)
(* denominator of 0 for NaN.                                               *)
(***************************************************************************)
Frac(n, d) == [num |-> n, den |-> d]
None == "None"

\* Series.sum(): missing values are skipped, the empty sum is 0
RECURSIVE SumCells(_)
SumCells(cells) ==
    IF cells = <<>> THEN 0
    ELSE (IF IsNum(Head(cells)) THEN Head(cells).v ELSE 0) + SumCells(Tail(cells))

\* a mean over the entries that spend something
MeanCells_Spending(cells) ==
    Frac(SumCells(cells), Len(SelectSeq(cells, LAMBDA c : IsNum(c) /\ c.v # 0)))

\* Series.mean(): the mean of the values that are not missing
MeanCells(cells) == Frac(SumCells(cells), Len(SelectSeq(cells, IsNum)))

\* the amounts of the rows whose key is k, in row order
RECURSIVE Pick(_, _, _)
Pick(keys, amounts, k) ==
    IF keys = <<>> THEN <<>>
    ELSE (IF Head(keys) = k THEN <<Head(amounts)>> ELSE <<>>)
             \o Pick(Tail(keys), Tail(amounts), k)

\* frame.groupby(key)['amount'].sum().to_dict(): one item per key that is
\* not missing, keys in sorted order
GroupSum(keys, amounts) ==
    LET sorted == SortedStrings({keys[i] : i \in DOMAIN keys} \ {NA})
    IN  [j \in DOMAIN sorted |->
            [key |-> sorted[j], value |-> SumCells(Pick(keys, amounts, sorted[j]))]]

\* d.get(k, 0)
Get(d, k) ==
    IF \E i \in DOMAIN d : d[i].key = k
    THEN d[CHOOSE i \in DOMAIN d : d[i].key = k].value
    ELSE 0

\* max(d.items(), key=lambda x: x[1])[0]: the first item of the largest value
MaxItemKey(d) ==
    d[CHOOSE i \in DOMAIN d :
          /\ \A j \in DOMAIN d : d[j].value <= d[i].value
          /\ \A j \in 1..(i - 1) : d[j].value < d[i].value].key

\* the sequence s without its i-th element
Without(s, i) == SubSeq(s, 1, i - 1) \o SubSeq(s, i + 1, Len(s))

\* Series.nlargest(n): the n largest values in descending order, equal
\* values in their order of appearance
RECURSIVE nlargest(_, _)
nlargest(n, d) ==
    IF n = 0 \/ d = <<>> THEN <<>>
    ELSE LET i == CHOOSE i \in DOMAIN d :
                      /\ \A j \in DOMAIN d : d[j].value <= d[i].value
                      /\ \A j \in 1..(i - 1) : d[j].value < d[i].value
         IN  <<d[i]>> \o nlargest(n - 1, Without(d, i))

(***************************************************************************)
(* DataExtractor._generate_spending_summary and get_spending_summary.      *)
(***************************************************************************)
\* self.transactions.loc[debit_mask, 'Amount (USD)'].sum()
BankSpend(bank) ==
    SumCells([i \in DOMAIN bank.rows |->
                 IF bank.rows[i].Type = "Debit" THEN bank.rows[i].Amount ELSE Num(0)])

\* self.credit_card_transactions['Amount ($)'].sum()
CreditCardSpend(cc) == SumCells([i \in DOMAIN cc.rows |-> cc.rows[i].Amount])

\* a total that forgets the card
TotalSpend_BankOnly(bank_spend, credit_card_spend) == bank_spend

\* bank_spend + credit_card_spend
TotalSpend(bank_spend, credit_card_spend) == bank_spend + credit_card_spend

\* bank_txns[['Date', 'amount', 'category', 'source', 'Receiver']]
BankTxns(bank) ==
    [i \in DOMAIN bank.rows |->
        LET r == bank.rows[i]
        IN  [Date |-> r.Date,
             amount |-> IF r.Type = "Debit" THEN r.Amount ELSE Num(0),
             category |-> _categorize_transaction(r.Name),
             source |-> "bank", Receiver |-> r.Name, Merchant |-> NA]]

\* a unified sequence that files a row under its Category cell if it has one
CcTxns_ExplicitCategory(cc) ==
    [i \in DOMAIN cc.rows |->
        LET r == cc.rows[i]
        IN  [Date |-> r.Date, amount |-> r.Amount,
             category |-> IF r.Category # NA THEN r.Category
                          ELSE _categorize_transaction(r.Name),
             source |-> "credit_card", Receiver |-> NA, Merchant |-> r.Name]]

\* cc_txns[['Date', 'amount', 'category', 'source', 'Merchant']]
CcTxns(cc) ==
    [i \in DOMAIN cc.rows |->
        LET r == cc.rows[i]
        IN  [Date |-> r.Date, amount |-> r.Amount,
             category |-> _categorize_transaction(r.Name),
             source |-> "credit_card", Receiver |-> NA, Merchant |-> r.Name]]

\* an aggregation that needs both tables
CombinedTxns_BothRequired(bank, cc) ==
    IF IsEmpty(bank) \/ IsEmpty(cc) THEN <<>> ELSE BankTxns(bank) \o CcTxns(cc)

\* pd.concat(all_transactions, ignore_index=True)
CombinedTxns(bank, cc) == BankTxns(bank) \o CcTxns(cc)

\* (datetime.now() - timedelta(days=30)).strftime('%Y-%m')
LastMonthKey(now) == Strftime(MinusDays(now, LastMonthDays))

\* datetime.now().strftime('%Y-%m')
CurrentMonthKey(now) == Strftime(now)

\* a change taken relative to the current month
MomChange_OverCurrent(current_month_spend, last_month_spend) ==
    IF last_month_spend # 0 /\ current_month_spend # 0
    THEN Frac((current_month_spend - last_month_spend) * 100, current_month_spend)
    ELSE Frac(0, 1)

\* ((current - last) / last) * 100 if last != 0 else 0
MomChange(current_month_spend, last_month_spend) ==
    IF last_month_spend # 0
    THEN Frac((current_month_spend - last_month_spend) * 100, last_month_spend)
    ELSE Frac(0, 1)

\* max(...)[0] if spending_by_category else None
MaxSpendingCategory(spending_by_category) ==
    IF spending_by_category # <<>> THEN MaxItemKey(spending_by_category) ELSE None

\* .head(5) in place of .nlargest(5)
TopMerchants_Head(combined, has_merchant_column) ==
    LET keys == [i \in DOMAIN combined |->
                    IF has_merchant_column THEN combined[i].Merchant
                    ELSE combined[i].Receiver]
        amounts == [i \in DOMAIN combined |-> combined[i].amount]
        grouped == GroupSum(keys, amounts)
    IN  SubSeq(grouped, 1, IF Len(grouped) < TopN THEN Len(grouped) ELSE TopN)

\* combined_txns.groupby('Merchant' if 'Merchant' in combined_txns.columns
\*                       else 'Receiver')['amount'].sum().nlargest(5).to_dict()
\* (the Merchant column exists once the credit-card rows are concatenated)
TopMerchants(combined, has_merchant_column) ==
    LET keys == [i \in DOMAIN combined |->
                    IF has_merchant_column THEN combined[i].Merchant
                    ELSE combined[i].Receiver]
        amounts == [i \in DOMAIN combined |-> combined[i].amount]
    IN  nlargest(TopN, GroupSum(keys, amounts))

\* the dictionary both the except branch of get_spending_summary and the
\* no-transactions branch of _generate_spending_summary return
ZeroSummary ==
    [total_spend |-> 0, bank_spend |-> 0, credit_card_spend |-> 0,
     spending_by_category |-> <<>>, monthly_spending |-> <<>>,
     current_month_spend |-> 0, last_month_spend |-> 0,
     month_over_month_change |-> Frac(0, 1),
     max_spending_category |-> None,
     average_transaction_amount |-> Frac(0, 1),
     top_merchants_by_spend |-> <<>>]

\* the inputs on which _generate_spending_summary raises: a column it names
\* is not in the table (KeyError), or a receiver/merchant is missing
\* (float has no lower())
Raises(bank, cc) ==
    \/ /\ ~IsEmpty(bank)
       /\ \/ bank.amount_column # AMOUNT_USD
          \/ ~bank.has_type
          \/ \E i \in DOMAIN bank.rows : bank.rows[i].Name = NA
    \/ /\ ~IsEmpty(cc)
       /\ \/ cc.amount_column # AMOUNT_DOLLAR
          \/ \E i \in DOMAIN cc.rows : cc.rows[i].Name = NA

_generate_spending_summary(bank, cc, now) ==
    LET bank_spend == IF IsEmpty(bank) THEN 0 ELSE BankSpend(bank)
        credit_card_spend == IF IsEmpty(cc) THEN 0 ELSE CreditCardSpend(cc)
        combined == CombinedTxns(bank, cc)
        amounts == [i \in DOMAIN combined |-> combined[i].amount]
        spending_by_category ==
            GroupSum([i \in DOMAIN combined |-> combined[i].category], amounts)
        monthly_spending ==
            GroupSum([i \in DOMAIN combined |-> Strftime(combined[i].Date)], amounts)
        current_month_spend == Get(monthly_spending, CurrentMonthKey(now))
        last_month_spend == Get(monthly_spending, LastMonthKey(now))
    IN  IF combined = <<>> THEN ZeroSummary
        ELSE [total_spend |-> TotalSpend(bank_spend, credit_card_spend),
              bank_spend |-> bank_spend,
              credit_card_spend |-> credit_card_spend,
              spending_by_category |-> spending_by_category,
              monthly_spending |-> monthly_spending,
              current_month_spend |-> current_month_spend,
              last_month_spend |-> last_month_spend,
              month_over_month_change |-> MomChange(current_month_spend, last_month_spend),
              max_spending_category |-> MaxSpendingCategory(spending_by_category),
              average_transaction_amount |-> MeanCells(amounts),
              top_merchants_by_spend |-> TopMerchants(combined, ~IsEmpty(cc))]

\* what a caller would see if the exception left get_spending_summary
Raised == [exception |-> "Exception"]

\* get_spending_summary without its try/except
get_spending_summary_Uncaught(bank, cc, now) ==
    IF Raises(bank, cc) THEN Raised
    ELSE _generate_spending_summary(bank, cc, now)

\* try: return self._generate_spending_summary()
\* except Exception: return the dictionary of zeros
get_spending_summary(bank, cc, now) ==
    IF Raises(bank, cc) THEN ZeroSummary
    ELSE _generate_spending_summary(bank, cc, now)

(***************************************************************************)
(* Social-media posts and DataExtractor.get_user_interests.  A post table  *)
(* is the sequence of its Post Content cells (NA for a cell that is not a  *)
(* str) and whether it has that column at all.                             *)
(***************************************************************************)
PostTable(has_content, posts) == [has_content |-> has_content, posts |-> posts]

\* pd.DataFrame()
EmptyPosts == PostTable(FALSE, <<>>)

\* pd.concat([a, b], ignore_index=True): the columns of both, a cell of a
\* column a table lacks is missing
ConcatPosts(a, b) ==
    PostTable(a.has_content \/ b.has_content,
              [i \in DOMAIN a.posts |-> IF a.has_content THEN a.posts[i] ELSE NA]
                  \o [i \in DOMAIN b.posts |-> IF b.has_content THEN b.posts[i] ELSE NA])

interest_keywords ==
    << [category |-> "travel",        keywords |-> <<"travel", "vacation", "trip", "holiday",
                                                     "explore", "adventure", "beach", "ocean",
                                                     "waves">>],
       [category |-> "technology",    keywords |-> <<"tech", "gadget", "computer", "phone",
                                                     "coding", "programming", "ai",
                                                     "innovation">>],
       [category |-> "food",          keywords |-> <<"restaurant", "dining", "food", "cuisine",
                                                     "cooking", "recipe", "pasta", "dinner">>],
       [category |-> "shopping",      keywords |-> <<"shopping", "store", "mall", "buy",
                                                     "purchase", "deal", "wardrobe", "fashion">>],
       [category |-> "entertainment", keywords |-> <<"movie", "music", "concert", "show",
                                                     "theater", "performance", "documentary">>],
       [category |-> "fitness",       keywords |-> <<"gym", "workout", "fitness", "exercise",
                                                     "sports", "training", "swimming",
                                                     "deadlifts">>],
       [category |-> "education",     keywords |-> <<"study", "course", "learn", "education",
                                                     "university", "college", "career">>],
       [category |-> "finance",       keywords |-> <<"investing", "finance", "stock", "market",
                                                     "savings", "investments", "financial">>],
       [category |-> "outdoor",       keywords |-> <<"hiking", "camping", "nature", "park",
                                                     "outdoor", "adventure", "beach", "ocean">>],
       [category |-> "lifestyle",     keywords |-> <<"weekend", "relax", "vibes", "life",
                                                     "journey", "experience">>] >>

\* df.to_dict('records'): a list of one dict per row, no DataFrame
ToRecords(table) == [records |-> table.posts]

\* isinstance(social_media, pd.DataFrame)
IsDataFrame(social_media) == "has_content" \in DOMAIN social_media

\* the categories one Post Content cell adds to the set
ContentInterests(content) ==
    IF content = NA THEN {}
    ELSE LET content_lower == Lower(content)
         IN  {interest_keywords[c].category : c \in
                 {c \in DOMAIN interest_keywords :
                     AnyKeyword(content_lower, interest_keywords[c].keywords)}}

\* the interests of the last post alone
get_user_interests_LastPost(social_media) ==
    IF ~IsDataFrame(social_media) THEN <<>>
    ELSE IF social_media.posts = <<>> \/ ~social_media.has_content THEN <<>>
    ELSE SortedStrings(ContentInterests(social_media.posts[Len(social_media.posts)]))

\* sorted(list(interests)), interests the union over the posts; [] for
\* what is not a DataFrame, for an empty table and for a table without a
\* Post Content column
get_user_interests(social_media) ==
    IF ~IsDataFrame(social_media) THEN <<>>
    ELSE IF social_media.posts = <<>> \/ ~social_media.has_content THEN <<>>
    ELSE SortedStrings(UNION {ContentInterests(social_media.posts[i]) :
                                  i \in DOMAIN social_media.posts})

\* the table of analyze_user_interests, which nothing calls
category_to_interest ==
    << [category |-> "Dining",        interests |-> <<"Food", "Restaurants", "Culinary">>],
       [category |-> "Entertainment", interests |-> <<"Entertainment", "Movies", "Streaming">>],
       [category |-> "Fitness",       interests |-> <<"Fitness", "Health", "Sports">>],
       [category |-> "Shopping",      interests |-> <<"Shopping", "Retail">>],
       [category |-> "Transport",     interests |-> <<"Travel", "Transportation">>],
       [category |-> "Grocery",       interests |-> <<"Cooking", "Food">>],
       [category |-> "Subscription",  interests |-> <<"Entertainment", "Streaming",
                                                      "Digital Services">>],
       [category |-> "Investment",    interests |-> <<"Finance", "Investing">>],
       [category |-> "Fashion",       interests |-> <<"Fashion", "Clothing", "Style">>],
       [category |-> "Electronics",   interests |-> <<"Technology", "Gadgets">>] >>

(***************************************************************************)
(* JSON documents.  A value is a dict (a sequence of key/value items), a   *)
(* list or None; json.loads reads the texts made of empty objects, arrays  *)
(* and null, and raises JSONDecodeError on every other text.               *)
(***************************************************************************)
JDict(items) == [type |-> "dict", items |-> items]
JList(items) == [type |-> "list", items |-> items]
JNull == [type |-> "NoneType", items |-> <<>>]

RECURSIVE SkipSpaces(_, _)
SkipSpaces(s, i) ==
    IF i <= Len(s) /\ SubSeq(s, i, i) = " " THEN SkipSpaces(s, i + 1) ELSE i

\* s[i:].startswith(lit), i counted from 1
StartsWith(s, i, lit) ==
    i + Len(lit) - 1 <= Len(s) /\ SubSeq(s, i, i + Len(lit) - 1) = lit

JSONDecodeError == [ok |-> FALSE, value |-> JNull, pos |-> 0]
Decoded(value, pos) == [ok |-> TRUE, value |-> value, pos |-> pos]

\* the decoder: the value that starts at s[i] and the position after it
RECURSIVE ParseValue(_, _)
RECURSIVE ParseElements(_, _, _)
ParseValue(s, i0) ==
    LET i == SkipSpaces(s, i0)
    IN  CASE StartsWith(s, i, "null") -> Decoded(JNull, i + 4)
          [] StartsWith(s, i, "{") ->
                 LET j == SkipSpaces(s, i + 1)
                 IN  IF StartsWith(s, j, "}") THEN Decoded(JDict(<<>>), j + 1)
                     ELSE JSONDecodeError
          [] StartsWith(s, i, "[") ->
                 LET j == SkipSpaces(s, i + 1)
                 IN  IF StartsWith(s, j, "]") THEN Decoded(JList(<<>>), j + 1)
                     ELSE ParseElements(s, j, <<>>)
          [] OTHER -> JSONDecodeError

ParseElements(s, i, acc) ==
    LET v == ParseValue(s, i)
    IN  IF ~v.ok THEN JSONDecodeError
        ELSE LET j == SkipSpaces(s, v.pos)
             IN  IF StartsWith(s, j, ",")
                 THEN ParseElements(s, j + 1, Append(acc, v.value))
                 ELSE IF StartsWith(s, j, "]")
                 THEN Decoded(JList(Append(acc, v.value)), j + 1)
                 ELSE JSONDecodeError

\* json.loads(s): one value and nothing but blanks after it
json_loads(s) ==
    LET v == ParseValue(s, 1)
    IN  IF v.ok /\ SkipSpaces(s, v.pos) = Len(s) + 1 THEN v ELSE JSONDecodeError

(***************************************************************************)
(* LLMInteraction (llm_interaction.py).  What a call of the model does is  *)
(* an outcome: it raises, or it returns a text.                            *)
(***************************************************************************)
Raises_llm == [raises |-> TRUE, text |-> ""]
Replies_llm(text) == [raises |-> FALSE, text |-> text]

RECURSIVE StripLeft(_)
StripLeft(s) ==
    IF Len(s) > 0 /\ SubSeq(s, 1, 1) = " " THEN StripLeft(SubSeq(s, 2, Len(s))) ELSE s

RECURSIVE StripRight(_)
StripRight(s) ==
    IF Len(s) > 0 /\ SubSeq(s, Len(s), Len(s)) = " "
    THEN StripRight(SubSeq(s, 1, Len(s) - 1)) ELSE s

\* str.strip()
Strip(s) == StripLeft(StripRight(s))

\* s.find(c) and s.rfind(c) for a character c: an index from 0, or -1
Find(s, c) ==
    IF \E i \in 1..Len(s) : SubSeq(s, i, i) = c
    THEN (CHOOSE i \in 1..Len(s) :
              SubSeq(s, i, i) = c /\ \A j \in 1..(i - 1) : SubSeq(s, j, j) # c) - 1
    ELSE -1

RFind(s, c) ==
    IF \E i \in 1..Len(s) : SubSeq(s, i, i) = c
    THEN (CHOOSE i \in 1..Len(s) :
              SubSeq(s, i, i) = c /\ \A j \in (i + 1)..Len(s) : SubSeq(s, j, j) # c) - 1
    ELSE -1

\* _generate_response: the text from the first brace to the last one if it
\* is JSON, else the whole reply; an exception of the model is raised again
_generate_response(outcome) ==
    IF outcome.raises THEN [raised |-> TRUE, content |-> ""]
    ELSE LET content == Strip(outcome.text)
             start == Find(content, "{")
             end == RFind(content, "}") + 1
         IN  IF start >= 0 /\ end > start
             THEN LET json_str == SubSeq(content, start + 1, end)
                  IN  [raised |-> FALSE,
                       content |-> IF json_loads(json_str).ok THEN json_str ELSE content]
             ELSE [raised |-> FALSE, content |-> content]

\* the documents returned when nothing could be parsed
EmptyProductRecommendations ==
    JDict(<< [key |-> "credit_card_recommendations", value |-> JList(<<>>)],
             [key |-> "loan_recommendations", value |-> JList(<<>>)],
             [key |-> "other_recommendations", value |-> JList(<<>>)] >>)

EmptyCardRecommendations ==
    JDict(<< [key |-> "recommendations", value |-> JList(<<>>)] >>)

\* the body of both methods after the prompt: one call of
\* _generate_response, json.loads of what it returns; JSONDecodeError and
\* every other exception give the empty document
Recommend(prompt_built, outcome, empty) ==
    IF ~prompt_built THEN [value |-> empty, calls |-> 0]
    ELSE LET response == _generate_response(outcome)
         IN  IF response.raised THEN [value |-> empty, calls |-> 1]
             ELSE LET recommendations == json_loads(response.content)
                  IN  [value |-> IF recommendations.ok THEN recommendations.value
                                 ELSE empty,
                       calls |-> 1]

\* get_product_recommendations: the prompt reads the card and the loan
\* catalogue with pd.read_csv
get_product_recommendations(catalog, outcome) ==
    Recommend(catalog.cards /\ catalog.loans, outcome, EmptyProductRecommendations)

\* get_credit_card_recommendations: the prompt reads the card catalogue
get_credit_card_recommendations(catalog, outcome) ==
    Recommend(catalog.cards, outcome, EmptyCardRecommendations)

(***************************************************************************)
(* FinancialDataLoader.load_all_data: the files it reads.  A file is "ok", *)
(* "missing", or "unparsable": it exists and read_csv raises on it         *)
(* (malformed, empty or unreadable).                                       *)
(***************************************************************************)
FileNames ==
    {"social_media", "kyc", "transactions", "credit_card_transactions",
     "receiver_categories", "available_credit_cards", "available_loans",
     "credit_card_list", "emails"}

FileStatus == {"ok", "missing", "unparsable"}

\* the files whose content the model does not look into
OtherFiles ==
    {"kyc", "available_credit_cards", "available_loans", "credit_card_list", "emails"}

AllOk == [f \in FileNames |-> "ok"]

\* pd.read_csv(path) if path.exists() else pd.DataFrame(), outside any
\* handler that swallows: the exception reaches `raise`
LoadRaises(files) == files["social_media"] = "unparsable"

\* the _load_* methods: try: read_csv ... except Exception: the empty container
LoadOrEmpty(status, content, empty) == IF status = "ok" THEN content ELSE empty

\* _load_social_media_data(file_path): the rows as a list of dicts, [] for
\* a file that is missing or cannot be read
_load_social_media_data(status, table) ==
    LoadOrEmpty(status, ToRecords(table), [records |-> <<>>])

(***************************************************************************)
(* The inputs: the tables a run starts from.                               *)
(***************************************************************************)
Row(date, amount, type, name, category) ==
    [Date |-> date, Amount |-> amount, Type |-> type, Name |-> name,
     Category |-> category]

Frame(amount_column, has_type, has_category, rows) ==
    [amount_column |-> amount_column, has_type |-> has_type,
     has_category |-> has_category, rows |-> rows]

AmountColumns == {AMOUNT_USD, AMOUNT_DOLLAR}
RawAmounts == {Num(a) : a \in 1..MaxAmount}
TxnDates == {Date(2024, 2, 10), Date(2024, 3, 10)}
BankTypes == {"Debit", "Credit", "debit"}
CcTypes == {"Debit", "Credit"}

\* the wall-clock dates a summary is computed on
NowSet == {Date(2024, m, d) : m \in {3, 4}, d \in {1, 15, 31}}
              \ {Date(2024, 4, 31)}

BankRows ==
    {Row(dt, a, ty, "Starbucks", NA) : dt \in TxnDates, a \in RawAmounts, ty \in BankTypes}

\* a table of the given rows; without rows it is pd.DataFrame()
FrameOf(amount_column, has_type, rows) ==
    IF rows = <<>> THEN EmptyFrame ELSE Frame(amount_column, has_type, FALSE, rows)

\* the credit-card rows of a table without and with a Transaction Type column
CcRows(has_type) ==
    {Row(dt, a, ty, "Amazon", NA) :
        dt \in TxnDates, a \in RawAmounts, ty \in IF has_type THEN CcTypes ELSE {NA}}

\* one credit-card row per merchant, for the first k merchants of this list
WideMerchants == <<"Netflix", "Amazon", "Uber", "Walmart", "Costco", "Nike">>

WideCcRows(amt) ==
    [i \in DOMAIN amt |-> Row(Date(2024, 3, 10), Num(amt[i]), NA, WideMerchants[i], NA)]

WideBankRows(amt) ==
    [i \in DOMAIN amt |-> Row(Date(2024, 3, 10), Num(amt[i]), "Debit", "Starbucks", NA)]

(***************************************************************************)
(* The run: main() loads the files, builds a DataExtractor, asks for the   *)
(* summary and the interests and saves them; a caller may also hand its    *)
(* tables to DataExtractor itself.                                         *)
(***************************************************************************)
VARIABLES
    input,      \* the tables as the files hold them, or as the caller built them
    files,      \* the state of each file load_all_data reads
    data,       \* the data dictionary handed to DataExtractor
    origin,     \* "loader" once load_all_data made the dictionary, else "direct"
    extractor,  \* self.transactions, self.credit_card_transactions, self.social_media
    now,        \* datetime.now() of the summary
    summary,    \* what get_spending_summary returned
    interests,  \* what get_user_interests returned
    output,     \* the files of output/
    llm,        \* the language model: whether it loads, the catalogues the
                \* prompts read, what its calls do
    recommendations,  \* what the two recommendation methods returned
    new_posts,  \* the file handed to update_recommendations
    runs,       \* the runs that completed
    pc          \* "start", "loaded", "raised", "constructed", "returned",
                \* "interests", "recommended", "saved", "updated"

vars ==
    <<input, files, data, origin, extractor, now, summary, interests, output, llm,
      recommendations, new_posts, runs, pc>>

\* the files main() saves
OutputFiles ==
    {"spending_analysis", "kyc_details", "user_interests", "product_recommendations",
     "credit_card_recommendations"}

\* Post Content cells: posts with keywords of one, two or no categories, in
\* either case, and a cell that is not a str
PostContents == {"Beach trip", "New GYM day", "Pasta dinner", "Great deal", "Hello", NA}

\* the post tables of at most n posts: with a Post Content column, without
\* one, and pd.DataFrame()
PostTables(n) ==
    {EmptyPosts}
        \cup UNION {{PostTable(TRUE, posts) : posts \in [1..k -> PostContents]} : k \in 1..n}
        \cup {PostTable(FALSE, [i \in 1..k |-> NA]) : k \in 1..n}

\* a model that loads and answers both prompts with an empty object
DefaultLLM ==
    [loads |-> TRUE, catalog |-> [cards |-> TRUE, loans |-> TRUE],
     product |-> Replies_llm("{}"), card |-> Replies_llm("{}")]

NoRecommendations ==
    [product |-> [value |-> JNull, calls |-> 0], card |-> [value |-> JNull, calls |-> 0]]

NoFile == [written |-> FALSE, content |-> <<>>, saves |-> 0]

\* save_json(data, filename): the file holds the new document alone
save_json(file, content) ==
    [written |-> TRUE, content |-> content, saves |-> file.saves + 1]

StartEnv(bank, cc, rc, sm, status, env) ==
    /\ input = [transactions |-> bank, credit_card_transactions |-> cc,
                receiver_categories |-> rc, social_media |-> sm,
                others |-> [f \in OtherFiles |-> "rows"]]
    /\ files = status
    /\ data = input
    /\ origin = "direct"
    /\ extractor = [transactions |-> EmptyFrame, credit_card_transactions |-> EmptyFrame,
                    social_media |-> EmptyPosts]
    /\ now = NoDate
    /\ summary = ZeroSummary
    /\ interests = <<>>
    /\ output = [f \in OutputFiles |-> NoFile]
    /\ llm = env
    /\ recommendations = NoRecommendations
    /\ new_posts = [status |-> "missing", table |-> EmptyPosts]
    /\ runs = 0
    /\ pc = "start"

StartWith(bank, cc, rc, sm, status) == StartEnv(bank, cc, rc, sm, status, DefaultLLM)

\* transaction tables alone: no posts, every file readable
Start(bank, cc, rc) == StartWith(bank, cc, rc, EmptyPosts, AllOk)

\* every pair of tables of at most MaxRows rows together, under either name
\* of the amount column
Init ==
    \E nb \in 0..MaxRows : \E nc \in 0..(MaxRows - nb) :
    \E bcol \in AmountColumns, ccol \in AmountColumns, typed \in BOOLEAN :
    \E brows \in [1..nb -> BankRows], crows \in [1..nc -> CcRows(typed)] :
        /\ nb = 0 => bcol = AMOUNT_USD
        /\ nc = 0 => ccol = AMOUNT_USD /\ ~typed
        /\ Start(FrameOf(bcol, TRUE, brows), FrameOf(ccol, typed, crows), <<>>)

\* a credit-card table of up to Len(WideMerchants) merchants, with or
\* without one bank debit
InitWide ==
    \E k \in 0..Len(WideMerchants), nb \in 0..1 :
    \E camt \in [1..k -> 1..MaxAmount], bamt \in [1..nb -> 1..MaxAmount] :
        Start(FrameOf(AMOUNT_USD, TRUE, WideBankRows(bamt)),
              FrameOf(AMOUNT_DOLLAR, FALSE, WideCcRows(camt)), <<>>)

\* FinancialDataLoader.load_all_data
LoadAllData ==
    /\ pc = "start"
    /\ origin' = "loader"
    /\ IF LoadRaises(files)
       THEN /\ pc' = "raised"
            /\ UNCHANGED data
       ELSE /\ pc' = "loaded"
            /\ data' =
                 [transactions |->
                      LoadOrEmpty(files["transactions"],
                                  _load_transaction_data(input.transactions), EmptyFrame),
                  credit_card_transactions |->
                      LoadOrEmpty(files["credit_card_transactions"],
                                  _load_transaction_data(input.credit_card_transactions),
                                  EmptyFrame),
                  receiver_categories |->
                      LoadOrEmpty(files["receiver_categories"],
                                  input.receiver_categories, <<>>),
                  social_media |->
                      LoadOrEmpty(files["social_media"], input.social_media, EmptyPosts),
                  others |->
                      [f \in OtherFiles |-> LoadOrEmpty(files[f], input.others[f], "empty")]]
    /\ UNCHANGED <<input, files, extractor, now, summary, interests, output, llm,
                   recommendations, new_posts, runs>>

\* DataExtractor(data)
DataExtractorInit ==
    /\ pc \in {"start", "loaded"}
    /\ extractor' =
           [transactions |-> InitTransactions(data.transactions, data.receiver_categories),
            credit_card_transactions |->
                InitCreditCard(data.credit_card_transactions, data.receiver_categories),
            social_media |-> data.social_media]
    /\ data' = [data EXCEPT
                   !.transactions = InitTransactionsInPlace(@),
                   !.credit_card_transactions = InitCreditCardInPlace(@)]
    /\ pc' = "constructed"
    /\ UNCHANGED <<input, files, origin, now, summary, interests, output, llm,
                   recommendations, new_posts, runs>>

\* data_extractor.get_spending_summary()
GetSpendingSummary ==
    /\ pc = "constructed"
    /\ \E t \in NowSet :
          /\ now' = t
          /\ summary' = get_spending_summary(extractor.transactions,
                                             extractor.credit_card_transactions, t)
    /\ pc' = "returned"
    /\ UNCHANGED <<input, files, data, origin, extractor, interests, output, llm,
                   recommendations, new_posts, runs>>

\* data_extractor.get_user_interests(): main() calls it after the summary,
\* update_recommendations right after the construction
GetUserInterests ==
    /\ pc \in {"constructed", "returned"}
    /\ interests' = get_user_interests(extractor.social_media)
    /\ pc' = "interests"
    /\ UNCHANGED <<input, files, data, origin, extractor, now, summary, output, llm,
                   recommendations, new_posts, runs>>

\* main(): LLMInteraction() and the two recommendation calls; the
\* constructor raises again what loading the model raised
GetRecommendations ==
    /\ pc = "interests"
    /\ origin = "loader"
    /\ now # NoDate
    /\ IF ~llm.loads
       THEN /\ pc' = "raised"
            /\ UNCHANGED recommendations
       ELSE /\ pc' = "recommended"
            /\ recommendations' =
                   [product |-> get_product_recommendations(llm.catalog, llm.product),
                    card |-> get_credit_card_recommendations(llm.catalog, llm.card)]
    /\ UNCHANGED <<input, files, data, origin, extractor, now, summary, interests, output,
                   llm, new_posts, runs>>

\* get_kyc_details(): the KYC row, if the file gave one, and the
\* demographic insights
get_kyc_details(kyc) ==
    (IF kyc = "rows" THEN << [key |-> "Interests", value |-> "reading"] >> ELSE <<>>)
        \o << [key |-> "age_group", value |-> "insight"],
              [key |-> "location_insights", value |-> "insight"],
              [key |-> "typical_spending_patterns", value |-> "insight"] >>

\* main(): the five save_json calls
SaveResults ==
    /\ pc = "recommended"
    /\ output' = [f \in OutputFiles |->
                     save_json(output[f],
                         CASE f = "spending_analysis" -> summary
                           [] f = "kyc_details" -> get_kyc_details(data.others["kyc"])
                           [] f = "user_interests" -> interests
                           [] f = "product_recommendations" ->
                                  recommendations.product.value
                           [] f = "credit_card_recommendations" ->
                                  recommendations.card.value)]
    /\ runs' = runs + 1
    /\ pc' = "saved"
    /\ UNCHANGED <<input, files, data, origin, extractor, now, summary, interests, llm,
                   recommendations, new_posts>>

\* ', '.join(strings)
RECURSIVE Join(_)
Join(strings) ==
    IF strings = <<>> THEN ""
    ELSE IF Len(strings) = 1 THEN strings[1]
    ELSE strings[1] \o ", " \o Join(Tail(strings))

\* d[k] = v: the value of the key replaced, or the item added at the end
SetItem(d, k, v) ==
    IF \E i \in DOMAIN d : d[i].key = k
    THEN [i \in DOMAIN d |-> IF d[i].key = k THEN [key |-> k, value |-> v] ELSE d[i]]
    ELSE Append(d, [key |-> k, value |-> v])

\* list(set(xs)): the elements once each, in the order the hashes of this
\* process give, which is any order
ListOfSet(xs) ==
    LET S == {xs[i] : i \in DOMAIN xs}
    IN  {l \in [1..Cardinality(S) -> S] :
            \A i, j \in 1..Cardinality(S) : i # j => l[i] # l[j]}

\* update_recommendations(new_posts_file): reads the five files, takes the
\* interests of the new posts, calls the model and saves four files; every
\* exception is raised again
UpdateRecommendations ==
    /\ pc \in {"start", "saved", "updated"}
    /\ runs < MaxRuns
    /\ \E status \in FileStatus, table \in PostTables(1) :
          LET social_media == _load_social_media_data(status, table)
              new_interests == get_user_interests(social_media)
              user_interests == output["user_interests"].content
              product_recommendations == output["product_recommendations"].content
          IN  /\ new_posts' = [status |-> status, table |-> table]
              /\ IF \/ \E f \in OutputFiles : ~output[f].written
                    \/ ~llm.loads
                    \/ product_recommendations.type # "dict"
                 THEN /\ pc' = "raised"
                      /\ UNCHANGED <<output, recommendations, runs>>
                 ELSE \E updated_interests \in ListOfSet(user_interests \o new_interests) :
                        LET kyc_details ==
                                SetItem(SetItem(output["kyc_details"].content,
                                                "Interests", Join(updated_interests)),
                                        "Hobbies", Join(updated_interests))
                            new_recommendations ==
                                [product |->
                                     get_product_recommendations(llm.catalog, llm.product),
                                 card |->
                                     get_credit_card_recommendations(llm.catalog, llm.card)]
                        IN  /\ recommendations' = new_recommendations
                            /\ output' =
                                 [output EXCEPT
                                    !["user_interests"] = save_json(@, updated_interests),
                                    !["kyc_details"] = save_json(@, kyc_details),
                                    !["product_recommendations"] =
                                        save_json(@, new_recommendations.product.value),
                                    !["credit_card_recommendations"] =
                                        save_json(@, new_recommendations.card.value)]
                            /\ runs' = runs + 1
                            /\ pc' = "updated"
    /\ UNCHANGED <<input, files, data, origin, extractor, now, summary, interests, llm>>

\* the program is started again: the posts file may hold other posts by now
NewRun ==
    /\ pc \in {"saved", "updated"}
    /\ runs < MaxRuns
    /\ \E social_media \in PostTables(1) :
          input' = [input EXCEPT !.social_media = social_media]
    /\ data' = input'
    /\ origin' = "direct"
    /\ extractor' = [transactions |-> EmptyFrame, credit_card_transactions |-> EmptyFrame,
                     social_media |-> EmptyPosts]
    /\ now' = NoDate
    /\ summary' = ZeroSummary
    /\ interests' = <<>>
    /\ pc' = "start"
    /\ UNCHANGED <<files, output, llm, recommendations, new_posts, runs>>

Next == LoadAllData \/ DataExtractorInit \/ GetSpendingSummary

Spec == Init /\ [][Next]_vars

SpecWide == InitWide /\ [][Next]_vars

\* merchant names: a word of each category and one of none, alone and in
\* pairs, and three names as bank statements show them
MerchantWords ==
    {"Starbucks", "AMAZON.COM", "Netflix", "Uber", "Tesla", "Gym", "Insurance",
     "Equity", "Gadgets", "Vendor"}

MerchantNames ==
    {"Starbucks Coffee #123", "AMAZON.COM*ABC123", "UNKNOWN VENDOR XYZ"}
        \cup MerchantWords
        \cup {a \o " " \o b : a \in MerchantWords, b \in MerchantWords}

\* a credit-card table of one charge, at any of the merchants
InitMerchants ==
    \E merchant \in MerchantNames :
        Start(EmptyFrame,
              Frame(AMOUNT_DOLLAR, FALSE, FALSE,
                    << Row(Date(2024, 3, 10), Num(1), NA, merchant, NA) >>),
              <<>>)

SpecMerchants == InitMerchants /\ [][Next]_vars

\* amount cells as a file may hold them: numbers, and text that is no number
CoerceAmounts == RawAmounts \cup {Text}

CoerceBankRows ==
    {Row(dt, a, ty, "Starbucks", NA) :
        dt \in TxnDates, a \in CoerceAmounts, ty \in BankTypes}

CoerceCcRows ==
    {Row(dt, a, NA, "Amazon", NA) : dt \in TxnDates, a \in CoerceAmounts}

\* tables of at most MaxRows rows together, amounts numeric or not, the
\* amount columns under the names the aggregation reads
InitCoerce ==
    \E nb \in 0..MaxRows : \E nc \in 0..(MaxRows - nb) :
    \E brows \in [1..nb -> CoerceBankRows], crows \in [1..nc -> CoerceCcRows] :
        Start(FrameOf(AMOUNT_USD, TRUE, brows), FrameOf(AMOUNT_DOLLAR, FALSE, crows), <<>>)

SpecCoerce == InitCoerce /\ [][Next]_vars

\* Receiver_vs_Category.csv: none, one or both of the names the tables
\* use, a name they do not use, a name in another case, and a name listed
\* twice
CategoryMaps ==
    { <<>>,
      << [Receiver |-> "Starbucks", Category |-> "Dining"] >>,
      << [Receiver |-> "Amazon", Category |-> "Shopping"] >>,
      << [Receiver |-> "Starbucks", Category |-> "Dining"],
         [Receiver |-> "Amazon", Category |-> "Shopping"] >>,
      << [Receiver |-> "Walmart", Category |-> "Grocery"] >>,
      << [Receiver |-> "starbucks", Category |-> "Dining"] >>,
      << [Receiver |-> "Starbucks", Category |-> "Dining"],
         [Receiver |-> "Starbucks", Category |-> "Coffee"] >>,
      << [Receiver |-> "Amazon", Category |-> "Shopping"],
         [Receiver |-> "Amazon", Category |-> "Books"] >> }

\* the Category cells of a table with the column (one of them missing) and
\* of a table without it
CategoryCells(has_category) == IF has_category THEN {NA, "Food"} ELSE {NA}

\* a table of the given rows with or without a Category column
CategoryFrame(amount_column, has_type, has_category, rows) ==
    IF rows = <<>> THEN EmptyFrame ELSE Frame(amount_column, has_type, has_category, rows)

\* tables with and without a Category column, and a CategoryMap
InitCategories ==
    \E nb \in 0..MaxRows : \E nc \in 0..(MaxRows - nb) :
    \E bcat \in BOOLEAN, ccat \in BOOLEAN, rc \in CategoryMaps :
    \E bcells \in [1..nb -> CategoryCells(bcat)], ccells \in [1..nc -> CategoryCells(ccat)] :
        /\ nb = 0 => ~bcat
        /\ nc = 0 => ~ccat
        /\ Start(CategoryFrame(AMOUNT_USD, TRUE, bcat,
                     [i \in 1..nb |->
                         Row(Date(2024, 3, 10), Num(1), "Debit", "Starbucks", bcells[i])]),
                 CategoryFrame(AMOUNT_DOLLAR, FALSE, ccat,
                     [i \in 1..nc |->
                         Row(Date(2024, 3, 10), Num(1), NA, "Amazon", ccells[i])]),
                 rc)

SpecCategories == InitCategories /\ [][Next]_vars

\* every file in every state: the files that are there hold one bank debit,
\* one card charge, one map entry and one post
InitLoader ==
    \E status \in [FileNames -> FileStatus] :
        StartWith(Frame(AMOUNT_USD, TRUE, FALSE,
                        << Row(Date(2024, 3, 10), Num(1), "Debit", "Starbucks", NA) >>),
                  Frame(AMOUNT_DOLLAR, FALSE, FALSE,
                        << Row(Date(2024, 3, 10), Num(1), NA, "Amazon", NA) >>),
                  << [Receiver |-> "Starbucks", Category |-> "Dining"] >>,
                  PostTable(TRUE, << "Beach trip" >>),
                  status)

\* main() as far as the construction of the extractor
NextLoader == LoadAllData \/ DataExtractorInit

SpecLoader == InitLoader /\ [][NextLoader]_vars

\* a caller hands DataExtractor a table of posts, as update_recommendations does
InitInterests ==
    \E social_media \in PostTables(MaxPosts) :
        StartWith(EmptyFrame, EmptyFrame, <<>>, social_media, AllOk)

NextInterests == DataExtractorInit \/ GetUserInterests

SpecInterests == InitInterests /\ [][NextInterests]_vars

\* receivers of the categories dining, entertainment, fitness, shopping,
\* electronics and travel, and debits below and above a hundred
PipelineReceivers == {"Starbucks", "Netflix", "Gym", "Amazon", "Gadgets", "Uber"}
PipelineAmounts == {Num(50), Num(150)}

\* the files of a run of main(): one bank debit and at most one post
InitPipeline ==
    \E receiver \in PipelineReceivers, amount \in PipelineAmounts,
       social_media \in PostTables(1) :
        StartWith(Frame(AMOUNT_USD, TRUE, FALSE,
                        << Row(Date(2024, 3, 10), amount, "Debit", receiver, NA) >>),
                  EmptyFrame, <<>>, social_media, AllOk)

\* main() from the loading of the files to the saving of the results
NextPipeline ==
    LoadAllData \/ DataExtractorInit \/ GetSpendingSummary \/ GetUserInterests
        \/ GetRecommendations \/ SaveResults

SpecPipeline == InitPipeline /\ [][NextPipeline]_vars

\* what a call of the model may do: raise, or reply with an object, an
\* object inside a sentence or between blanks, no JSON at all, a brace that
\* never closes, or JSON that is no object
Outcomes ==
    {Raises_llm}
        \cup {Replies_llm(text) : text \in
                 {"{}", "Sure: {} done", " {} ", "Sorry", "", "{", "{} and {}",
                  "[]", "null", "[null]", "[{}, {}]"}}

\* a run of main() with any model: one that does not load, catalogues that
\* cannot be read, any outcome of either call
InitLLM ==
    \E loads \in BOOLEAN, cards \in BOOLEAN, loans \in BOOLEAN,
       product \in Outcomes, card \in Outcomes :
        StartEnv(Frame(AMOUNT_USD, TRUE, FALSE,
                       << Row(Date(2024, 3, 10), Num(50), "Debit", "Starbucks", NA) >>),
                 EmptyFrame, <<>>, PostTable(TRUE, << "Beach trip" >>), AllOk,
                 [loads |-> loads, catalog |-> [cards |-> cards, loans |-> loans],
                  product |-> product, card |-> card])

SpecLLM == InitLLM /\ [][NextPipeline]_vars

\* the outcomes of the runs that follow one another: an object, and JSON
\* that is no object
RunOutcomes == {Replies_llm("{}"), Replies_llm("[]")}

\* runs of main() and of update_recommendations one after the other
InitRuns ==
    \E social_media \in PostTables(1), product \in RunOutcomes :
        StartEnv(Frame(AMOUNT_USD, TRUE, FALSE,
                       << Row(Date(2024, 3, 10), Num(50), "Debit", "Starbucks", NA) >>),
                 EmptyFrame, <<>>, social_media, AllOk,
                 [DefaultLLM EXCEPT !.product = product])

NextRuns == NextPipeline \/ UpdateRecommendations \/ NewRun

SpecRuns == InitRuns /\ [][NextRuns]_vars

(***************************************************************************)
(* What the claims speak of.                                               *)
(***************************************************************************)
Returned == pc = "returned"
Constructed == pc \in {"constructed", "returned"}

\* the aggregation ran to its end, on at least one row
Aggregated ==
    /\ Returned
    /\ ~Raises(extractor.transactions, extractor.credit_card_transactions)
    /\ ~(IsEmpty(extractor.transactions) /\ IsEmpty(extractor.credit_card_transactions))

RECURSIVE SumValues(_)
SumValues(d) == IF d = <<>> THEN 0 ELSE Head(d).value + SumValues(Tail(d))

Keys(d) == {d[i].key : i \in DOMAIN d}

\* the calendar month before the month of dt
PrevMonth(dt) == IF dt.m = 1 THEN Date(dt.y - 1, 12, 1) ELSE Date(dt.y, dt.m - 1, 1)

(***************************************************************************)
(* C1: in every summary get_spending_summary returns, total_spend is       *)
(* bank_spend + credit_card_spend, and it is 0 when both tables are empty; *)
(* the summary returned after an internal failure is included.             *)
(***************************************************************************)
C1_TotalIsBankPlusCard ==
    Returned =>
        /\ summary.total_spend = summary.bank_spend + summary.credit_card_spend
        /\ (IsEmpty(input.transactions) /\ IsEmpty(input.credit_card_transactions))
               => summary.total_spend = 0

\* main() ran, and both sources contribute to the total
C1_Witness ==
    /\ Aggregated
    /\ origin = "loader"
    /\ summary.bank_spend > 0
    /\ summary.credit_card_spend > 0

(***************************************************************************)
(* C2: in every summary, every value of spending_by_category is            *)
(* non-negative and the values sum to total_spend (raw amounts are         *)
(* non-negative in every input).                                           *)
(***************************************************************************)
C2_CategoryValuesNonNegativeSumToTotal ==
    Returned =>
        /\ \A i \in DOMAIN summary.spending_by_category :
               summary.spending_by_category[i].value >= 0
        /\ SumValues(summary.spending_by_category) = summary.total_spend

(***************************************************************************)
(* C3: after the bank table went through the loader and then through       *)
(* DataExtractor.__init__, every row whose Transaction Type contains       *)
(* "debit" holds a non-positive amount.                                    *)
(***************************************************************************)
C3_LoadedDebitRowsNonPositive ==
    (Constructed /\ origin = "loader") =>
        \A i \in DOMAIN extractor.transactions.rows :
            LET r == extractor.transactions.rows[i]
            IN  (IsDebitType(r.Type) /\ IsNum(r.Amount)) => r.Amount.v <= 0

(***************************************************************************)
(* C4: after normalization every credit-card row holds the negative of its *)
(* raw magnitude, a non-positive amount, with or without a Transaction     *)
(* Type column.                                                            *)
(***************************************************************************)
C4_CardRowsNonPositive ==
    Constructed =>
        \A i \in DOMAIN extractor.credit_card_transactions.rows :
            LET r == extractor.credit_card_transactions.rows[i]
            IN  /\ IsNum(r.Amount) => r.Amount.v <= 0
                /\ Len(extractor.credit_card_transactions.rows)
                       = Len(input.credit_card_transactions.rows)
                   => r.Amount = Negate(ToNumeric(input.credit_card_transactions.rows[i].Amount))

(***************************************************************************)
(* C5: bank_spend and credit_card_spend are reported as non-negative       *)
(* magnitudes, for tables that came through the loader and for tables      *)
(* handed to DataExtractor directly.                                       *)
(***************************************************************************)
C5_SpendsNonNegative ==
    Returned => summary.bank_spend >= 0 /\ summary.credit_card_spend >= 0

(***************************************************************************)
(* C6: when both tables are non-empty, a bank receiver whose grouped debit *)
(* spend is among the five largest of the unified sequence is listed in    *)
(* top_merchants_by_spend with that spend.                                 *)
(***************************************************************************)
\* the five largest of receivers and merchants ranked together
UnifiedTop ==
    LET combined == CombinedTxns(extractor.transactions, extractor.credit_card_transactions)
        keys == [i \in DOMAIN combined |->
                    IF combined[i].source = "bank" THEN combined[i].Receiver
                    ELSE combined[i].Merchant]
        amounts == [i \in DOMAIN combined |-> combined[i].amount]
    IN  nlargest(TopN, GroupSum(keys, amounts))

C6_BankReceiversRanked ==
    (/\ Aggregated
     /\ ~IsEmpty(extractor.transactions)
     /\ ~IsEmpty(extractor.credit_card_transactions)) =>
        \A i \in DOMAIN UnifiedTop :
            (\E j \in DOMAIN extractor.transactions.rows :
                 extractor.transactions.rows[j].Name = UnifiedTop[i].key)
            => \E k \in DOMAIN summary.top_merchants_by_spend :
                   summary.top_merchants_by_spend[k] = UnifiedTop[i]

(***************************************************************************)
(* C7: top_merchants_by_spend has at most 5 entries, no key twice, its     *)
(* entries in descending order of grouped spend, and every key of the      *)
(* grouping that is left out has a grouped spend no larger than the        *)
(* smallest one listed.  The grouping is the one the summary is taken      *)
(* from: by Merchant once the credit-card table has rows, else by          *)
(* Receiver.                                                               *)
(***************************************************************************)
\* the column the summary groups by, and the amount column beside it
GroupingKeys ==
    LET bank == extractor.transactions.rows
        cc == extractor.credit_card_transactions.rows
    IN  [i \in DOMAIN bank |-> IF cc # <<>> THEN NA ELSE bank[i].Name]
            \o [i \in DOMAIN cc |-> cc[i].Name]

GroupingAmounts ==
    LET bank == extractor.transactions.rows
        cc == extractor.credit_card_transactions.rows
    IN  [i \in DOMAIN bank |-> IF bank[i].Type = "Debit" THEN bank[i].Amount ELSE Num(0)]
            \o [i \in DOMAIN cc |-> cc[i].Amount]

\* key |-> grouped spend, for the keys that are not missing
GroupedSpend ==
    LET keys == GroupingKeys
        amounts == GroupingAmounts
    IN  [k \in {keys[i] : i \in DOMAIN keys} \ {NA} |-> SumCells(Pick(keys, amounts, k))]

C8_LastMonthIsPreviousCalendarMonth ==
    Returned =>
        /\ summary.current_month_spend = Get(summary.monthly_spending, Strftime(now))
        /\ summary.last_month_spend =
               Get(summary.monthly_spending, Strftime(PrevMonth(now)))

(***************************************************************************)
(* C9: month_over_month_change is 0 when last_month_spend is 0, and        *)
(* (current_month_spend - last_month_spend) / last_month_spend * 100       *)
(* otherwise.                                                              *)
(***************************************************************************)
C9_MonthOverMonthChange ==
    Returned =>
        LET change == summary.month_over_month_change
            current == summary.current_month_spend
            last == summary.last_month_spend
        IN  /\ change.den # 0
            /\ last = 0 => change.num = 0
            /\ last # 0 => change.num * last = (current - last) * 100 * change.den

\* both months have spend, and not the same
C9_Witness ==
    /\ Aggregated
    /\ summary.last_month_spend # 0
    /\ summary.current_month_spend # 0
    /\ summary.current_month_spend # summary.last_month_spend

(***************************************************************************)
(* C10: max_spending_category is a category of the largest value in        *)
(* spending_by_category, and it is None whenever no spend is recorded,     *)
(* as when the tables hold no debit and no card charge.                    *)
(***************************************************************************)
\* the bank table holds no debit and the credit-card table no row
NoSpendRecorded ==
    /\ IsEmpty(input.credit_card_transactions)
    /\ \A i \in DOMAIN input.transactions.rows :
           ~IsDebitType(input.transactions.rows[i].Type)

C10_MaxCategoryNoneWithoutSpend ==
    Returned =>
        /\ summary.max_spending_category # None =>
               \E i \in DOMAIN summary.spending_by_category :
                   /\ summary.spending_by_category[i].key = summary.max_spending_category
                   /\ \A j \in DOMAIN summary.spending_by_category :
                          summary.spending_by_category[j].value
                              <= summary.spending_by_category[i].value
        /\ NoSpendRecorded => summary.max_spending_category = None

(***************************************************************************)
(* C11: _categorize_transaction returns the first category, in the order   *)
(* dining, shopping, entertainment, travel, transportation, fitness,       *)
(* insurance, investments, electronics, one of whose keywords is a         *)
(* substring of the lower-cased merchant, and uncategorized when none      *)
(* matches.  The category of a charge is read off the summary of a table   *)
(* holding that one charge.                                                *)
(***************************************************************************)
CategoryOrder ==
    <<"dining", "shopping", "entertainment", "travel", "transportation", "fitness",
      "insurance", "investments", "electronics">>

\* a keyword the table lists for the category is a substring of the
\* lower-cased merchant
KeywordMatches(merchant, category) ==
    \E i \in DOMAIN categories :
        /\ categories[i].category = category
        /\ \E j \in DOMAIN categories[i].keywords :
               Contains(Lower(merchant), categories[i].keywords[j])

FirstMatchingCategory(merchant) ==
    IF \E i \in DOMAIN CategoryOrder : KeywordMatches(merchant, CategoryOrder[i])
    THEN CategoryOrder[CHOOSE i \in DOMAIN CategoryOrder :
                           /\ KeywordMatches(merchant, CategoryOrder[i])
                           /\ \A j \in 1..(i - 1) : ~KeywordMatches(merchant, CategoryOrder[j])]
    ELSE "uncategorized"

\* the merchant of the one charge, and the category the summary files it under
ChargedMerchant == extractor.credit_card_transactions.rows[1].Name
ChargedCategory == summary.spending_by_category[1].key

C11_FirstMatchingCategoryWins ==
    (Aggregated /\ Len(extractor.credit_card_transactions.rows) = 1
                /\ IsEmpty(extractor.transactions)) =>
        /\ Len(summary.spending_by_category) = 1
        /\ ChargedCategory = FirstMatchingCategory(ChargedMerchant)
        /\ ChargedMerchant = "Starbucks Coffee #123" => ChargedCategory = "dining"
        /\ ChargedMerchant = "AMAZON.COM*ABC123" => ChargedCategory = "shopping"
        /\ ChargedMerchant = "UNKNOWN VENDOR XYZ" => ChargedCategory = "uncategorized"

\* a merchant that matches keywords of two categories is filed under the
\* earlier one
C11_Witness ==
    /\ Aggregated
    /\ Len(extractor.credit_card_transactions.rows) = 1
    /\ ChargedCategory = "dining"
    /\ KeywordMatches(ChargedMerchant, "travel")

(***************************************************************************)
(* C12: get_spending_summary never raises: what it returns holds the       *)
(* eleven summary fields, and when the aggregation faults every numeric    *)
(* field is 0, both maps and the merchant ranking are empty and            *)
(* max_spending_category is None.                                          *)
(***************************************************************************)
SummaryFields ==
    {"total_spend", "bank_spend", "credit_card_spend", "spending_by_category",
     "monthly_spending", "current_month_spend", "last_month_spend",
     "month_over_month_change", "max_spending_category",
     "average_transaction_amount", "top_merchants_by_spend"}

\* the aggregation faulted on the tables the extractor holds
Faulted == Raises(extractor.transactions, extractor.credit_card_transactions)

C12_SummaryAlwaysComplete ==
    Returned =>
        /\ DOMAIN summary = SummaryFields
        /\ Faulted =>
               /\ summary.total_spend = 0
               /\ summary.bank_spend = 0
               /\ summary.credit_card_spend = 0
               /\ summary.current_month_spend = 0
               /\ summary.last_month_spend = 0
               /\ summary.month_over_month_change.num = 0
               /\ summary.month_over_month_change.den # 0
               /\ summary.average_transaction_amount.num = 0
               /\ summary.average_transaction_amount.den # 0
               /\ summary.spending_by_category = <<>>
               /\ summary.monthly_spending = <<>>
               /\ summary.top_merchants_by_spend = <<>>
               /\ summary.max_spending_category = None

\* a summary returned although the aggregation faulted on a table with rows
C12_Witness ==
    /\ Returned
    /\ Faulted
    /\ ~IsEmpty(extractor.transactions)
    /\ ~IsEmpty(extractor.credit_card_transactions)

(***************************************************************************)
(* C13: when exactly one of the two transaction tables is missing or       *)
(* empty, that source's spend is 0, total_spend is the other source's      *)
(* spend, and spending_by_category, monthly_spending and                   *)
(* top_merchants_by_spend are those of the other source alone.  The other  *)
(* table is one the aggregation reads to its end.                          *)
(***************************************************************************)
OnlyCard == IsEmpty(extractor.transactions) /\ ~IsEmpty(extractor.credit_card_transactions)
OnlyBank == ~IsEmpty(extractor.transactions) /\ IsEmpty(extractor.credit_card_transactions)

\* the rows of the one source that has rows: their spend amounts (a bank
\* row that is not a Debit spends 0), party names and months
AloneRows ==
    IF OnlyCard THEN extractor.credit_card_transactions.rows
    ELSE extractor.transactions.rows

AloneAmounts ==
    [i \in DOMAIN AloneRows |->
        IF OnlyBank /\ AloneRows[i].Type # "Debit" THEN Num(0) ELSE AloneRows[i].Amount]

AloneNames == [i \in DOMAIN AloneRows |-> AloneRows[i].Name]

AloneMonths == [i \in DOMAIN AloneRows |-> Strftime(AloneRows[i].Date)]

\* key |-> the sum of the amounts filed under the key
SumsBy(keys, amounts) ==
    [k \in {keys[i] : i \in DOMAIN keys} |->
        SumCells([i \in DOMAIN keys |-> IF keys[i] = k THEN amounts[i] ELSE Num(0)])]

\* the dictionary d holds exactly the keys of f, each with f's value
SameItems(d, f) ==
    /\ Keys(d) = DOMAIN f
    /\ \A i \in DOMAIN d : d[i].value = f[d[i].key]
    /\ \A i, j \in DOMAIN d : i # j => d[i].key # d[j].key

RunSummary(bank, cc, t) ==
    LET rc == input.receiver_categories
        loaded(df) == IF origin = "loader" THEN _load_transaction_data(df) ELSE df
    IN  get_spending_summary(InitTransactions(loaded(bank), rc),
                             InitCreditCard(loaded(cc), rc), t)

C14_AmountColumnNameIrrelevant ==
    Returned =>
        summary = RunSummary([input.transactions EXCEPT !.amount_column = AMOUNT_USD],
                             [input.credit_card_transactions EXCEPT
                                  !.amount_column = AMOUNT_DOLLAR],
                             now)

(***************************************************************************)
(* C15: a row whose amount is not numeric becomes a missing amount, not an *)
(* error: bank_spend, credit_card_spend and total_spend, and the value of  *)
(* every key of spending_by_category and monthly_spending, are what the    *)
(* run returns from the tables without such rows (a key only such rows     *)
(* have holds 0).                                                          *)
(***************************************************************************)
\* the table without the rows whose amount cell is not a number
NumericRowsOnly(df) ==
    LET rows == SelectSeq(df.rows, LAMBDA r : IsNum(r.Amount))
    IN  IF rows = <<>> THEN EmptyFrame ELSE [df EXCEPT !.rows = rows]

HasNonNumericRow(df) == \E i \in DOMAIN df.rows : ~IsNum(df.rows[i].Amount)

\* the two dictionaries hold the same value under every key, a key that
\* is not there counting as 0
SameContributions(d, e) == \A k \in Keys(d) \cup Keys(e) : Get(d, k) = Get(e, k)

C15_NonNumericAmountIsMissing ==
    (Returned /\ (HasNonNumericRow(input.transactions)
                     \/ HasNonNumericRow(input.credit_card_transactions))) =>
        LET without == RunSummary(NumericRowsOnly(input.transactions),
                                  NumericRowsOnly(input.credit_card_transactions), now)
        IN  /\ ~Faulted
            /\ summary.bank_spend = without.bank_spend
            /\ summary.credit_card_spend = without.credit_card_spend
            /\ summary.total_spend = without.total_spend
            /\ SameContributions(summary.spending_by_category, without.spending_by_category)
            /\ SameContributions(summary.monthly_spending, without.monthly_spending)

\* a table holds a row with a non-numeric amount beside a row that spends
C15_Witness ==
    /\ Aggregated
    /\ HasNonNumericRow(input.transactions)
    /\ Len(input.transactions.rows) > 1
    /\ summary.bank_spend # 0

(***************************************************************************)
(* C16: when a transaction table already has a Category column, after      *)
(* DataExtractor.__init__ every missing Category entry is the literal      *)
(* Other and every other entry is as it was, in the bank table and in the  *)
(* credit-card table.                                                      *)
(***************************************************************************)
\* the table `after` holds the Category cells of `before`, Other in place
\* of the missing ones
MissingFilled(before, after) ==
    /\ Len(after.rows) = Len(before.rows)
    /\ \A i \in DOMAIN before.rows :
           after.rows[i].Category =
               IF before.rows[i].Category = NA THEN "Other"
               ELSE before.rows[i].Category

C16_MissingCategoryFilled ==
    Constructed =>
        /\ input.transactions.has_category =>
               MissingFilled(input.transactions, extractor.transactions)
        /\ input.credit_card_transactions.has_category =>
               MissingFilled(input.credit_card_transactions,
                             extractor.credit_card_transactions)

(***************************************************************************)
(* C17: when a non-empty transaction table has no Category column, after   *)
(* DataExtractor.__init__ every row has a Category: the CategoryMap's      *)
(* label of the row's receiver or merchant if the map lists that exact     *)
(* name, Other if not; for every CategoryMap, the empty one too, and for   *)
(* both tables.                                                            *)
(***************************************************************************)
\* the label the map lists for the name, Other if it lists none
MapLabel(rc, name) ==
    IF \E j \in DOMAIN rc : rc[j].Receiver = name
    THEN rc[CHOOSE j \in DOMAIN rc : rc[j].Receiver = name].Category
    ELSE "Other"

Categorized(before, after, rc) ==
    /\ after.has_category
    /\ Len(after.rows) = Len(before.rows)
    /\ \A i \in DOMAIN after.rows :
           after.rows[i].Category = MapLabel(rc, before.rows[i].Name)

C17_EveryRowCategorized ==
    Constructed =>
        /\ (~IsEmpty(input.transactions) /\ ~input.transactions.has_category) =>
               Categorized(input.transactions, extractor.transactions,
                           input.receiver_categories)
        /\ (~IsEmpty(input.credit_card_transactions)
                /\ ~input.credit_card_transactions.has_category) =>
               Categorized(input.credit_card_transactions,
                           extractor.credit_card_transactions,
                           input.receiver_categories)

(***************************************************************************)
(* C18: load_all_data never raises: whichever of its input files are       *)
(* missing, unreadable or unparsable, it returns, with an empty container  *)
(* in place of each file that failed.                                      *)
(***************************************************************************)
\* load_all_data has run
LoaderRan == origin = "loader"

\* the container the data dictionary holds for the file is empty
EmptyContainer(f) ==
    CASE f = "transactions" -> IsEmpty(data.transactions)
      [] f = "credit_card_transactions" -> IsEmpty(data.credit_card_transactions)
      [] f = "receiver_categories" -> data.receiver_categories = <<>>
      [] f = "social_media" -> data.social_media = EmptyPosts
      [] OTHER -> data.others[f] = "empty"

C18_LoaderNeverRaises ==
    LoaderRan =>
        /\ pc # "raised"
        /\ \A f \in FileNames : files[f] # "ok" => EmptyContainer(f)

(***************************************************************************)
(* C19: interest inference is monotonic in the posts: every tag            *)
(* get_user_interests returned on a table A it also returns on the table   *)
(* holding the posts of A and of any table B together.                     *)
(***************************************************************************)
Range(s) == {s[i] : i \in DOMAIN s}

\* get_user_interests has returned
InterestsReturned == pc \in {"interests", "recommended", "saved"}

C19_InterestsMonotonic ==
    InterestsReturned =>
        \A more \in PostTables(MaxMore) :
            /\ Range(interests) \subseteq
                   Range(get_user_interests(ConcatPosts(extractor.social_media, more)))
            /\ Range(interests) \subseteq
                   Range(get_user_interests(ConcatPosts(more, extractor.social_media)))

\* the table has tags, and adding a post adds a tag
C19_Witness ==
    /\ InterestsReturned
    /\ interests # <<>>
    /\ \E more \in PostTables(MaxMore) :
           Range(interests) # Range(get_user_interests(ConcatPosts(extractor.social_media, more)))

(***************************************************************************)
(* C20: the interests main() writes to user_interests.json hold, for every *)
(* category of the summary with spend above 100 that the                   *)
(* category-to-interest table covers, that category's mapped tags, beside  *)
(* the tags matched in the social posts.                                   *)
(***************************************************************************)
\* the tags the category-to-interest table maps the category to (the table
\* spells its categories with a capital)
MappedTags(category) ==
    UNION {Range(category_to_interest[j].interests) :
               j \in {j \in DOMAIN category_to_interest :
                          Lower(category_to_interest[j].category) = category}}

C20_SpendDerivedTagsWritten ==
    (pc = "saved") =>
        LET written == Range(output["user_interests"].content)
            spending == output["spending_analysis"].content.spending_by_category
        IN  /\ Range(get_user_interests(extractor.social_media)) \subseteq written
            /\ \A i \in DOMAIN spending :
                   spending[i].value > 100 => MappedTags(spending[i].key) \subseteq written

(***************************************************************************)
(* C25: the aggregator counts as bank spend exactly the rows the           *)
(* normalizer treats as debits: every bank row whose Transaction Type      *)
(* contains "debit" in any case is included in bank_spend and in the       *)
(* spend amounts of the unified sequence, and no other bank row is.        *)
(***************************************************************************)
\* the amounts of the bank rows the normalizer flipped, 0 for the others
NormalizerDebitAmounts ==
    [i \in DOMAIN extractor.transactions.rows |->
        LET r == extractor.transactions.rows[i]
        IN  IF IsDebitType(r.Type) THEN r.Amount ELSE Num(0)]

C25_DebitRowsCountedAsSpend ==
    Aggregated =>
        /\ summary.bank_spend = SumCells(NormalizerDebitAmounts)
        /\ IsEmpty(extractor.credit_card_transactions) =>
               SumValues(summary.spending_by_category) = SumCells(NormalizerDebitAmounts)

(***************************************************************************)
(* C27: constructing a DataExtractor does not change the tables of the     *)
(* data dictionary it is given: the amounts of the caller's tables are     *)
(* after the construction what they were before it, and a second           *)
(* DataExtractor built from the same dictionary returns the same summary.  *)
(***************************************************************************)
\* the dictionary's table as it was handed to DataExtractor
HandedOver(df) == IF origin = "loader" THEN _load_transaction_data(df) ELSE df

\* the amount cells of a table, row by row
AmountCells(df) == [i \in DOMAIN df.rows |-> df.rows[i].Amount]

C27_ConstructionKeepsCallerTables ==
    /\ Constructed =>
           /\ AmountCells(data.transactions) = AmountCells(HandedOver(input.transactions))
           /\ AmountCells(data.credit_card_transactions)
                  = AmountCells(HandedOver(input.credit_card_transactions))
    /\ Returned =>
           summary = get_spending_summary(
                         InitTransactions(data.transactions, data.receiver_categories),
                         InitCreditCard(data.credit_card_transactions,
                                        data.receiver_categories),
                         now)

(***************************************************************************)
(* C28: average_transaction_amount is the mean over the rows of the        *)
(* unified sequence, a bank row that is not a debit counting as an entry   *)
(* of 0: the average times the number of rows with a numeric amount is     *)
(* total_spend, and the average is 0 when both tables are empty.           *)
(***************************************************************************)
\* the rows of the unified sequence that have a numeric amount
NumericEntries == Len(SelectSeq(GroupingAmounts, IsNum))

KeywordLabels == Range(CategoryOrder) \cup {"uncategorized"}

\* the table without its Category column
WithoutCategory(df) ==
    [df EXCEPT !.has_category = FALSE,
               !.rows = [i \in DOMAIN df.rows |-> [df.rows[i] EXCEPT !.Category = NA]]]

C29_CategoryKeysAreKeywordLabels ==
    Returned =>
        /\ Keys(summary.spending_by_category) \subseteq KeywordLabels
        /\ summary.spending_by_category =
               get_spending_summary(WithoutCategory(extractor.transactions),
                                    WithoutCategory(extractor.credit_card_transactions),
                                    now).spending_by_category

\* a row with a Category of its own or of the map is filed under a key
C29_Witness ==
    /\ Aggregated
    /\ \E i \in DOMAIN extractor.credit_card_transactions.rows :
           extractor.credit_card_transactions.rows[i].Category \in {"Food", "Shopping"}
    /\ summary.spending_by_category # <<>>

(***************************************************************************)
(* C30: the CategoryMap join keeps one row per transaction: for every      *)
(* CategoryMap, one that lists a receiver twice too, a table has after     *)
(* DataExtractor.__init__ as many rows as before, and bank_spend and       *)
(* credit_card_spend are the sums over the original rows.                  *)
(***************************************************************************)
\* what the run returns when there is no CategoryMap
RunSummaryWithoutMap ==
    get_spending_summary(InitTransactions(HandedOver(input.transactions), <<>>),
                         InitCreditCard(HandedOver(input.credit_card_transactions), <<>>),
                         now)

C30_JoinKeepsOneRowPerTransaction ==
    /\ Constructed =>
           /\ Len(extractor.transactions.rows) = Len(input.transactions.rows)
           /\ Len(extractor.credit_card_transactions.rows)
                  = Len(input.credit_card_transactions.rows)
    /\ Returned =>
           /\ summary.bank_spend = RunSummaryWithoutMap.bank_spend
           /\ summary.credit_card_spend = RunSummaryWithoutMap.credit_card_spend

(***************************************************************************)
(* C21: the list in user_interests.json has no tag twice and is in         *)
(* ascending order, after main() and after every update_recommendations.   *)
(***************************************************************************)
PersistedInterests == output["user_interests"].content

C21_PersistedInterestsSorted ==
    output["user_interests"].written =>
        PersistedInterests = SortedStrings(Range(PersistedInterests))

(***************************************************************************)
(* C22: over runs of main() and update_recommendations that follow one     *)
(* another, the set of tags in user_interests.json only grows: a run that  *)
(* completes leaves a superset of the set it found.                        *)
(***************************************************************************)
RunCompletes == runs' # runs

C22_PersistedInterestsOnlyGrow ==
    [][RunCompletes =>
          Range(PersistedInterests) \subseteq Range(output'["user_interests"].content)]_vars

(***************************************************************************)
(* C23: every run that completes, of main() or of update_recommendations,  *)
(* writes each of the five files of output/ anew.                          *)
(***************************************************************************)
C23_EveryRunWritesFiveFiles ==
    [][RunCompletes =>
          \A f \in OutputFiles :
              output'[f].written /\ output'[f].saves = output[f].saves + 1]_vars

(***************************************************************************)
(* C24: get_product_recommendations and get_credit_card_recommendations    *)
(* call the model at most once and never raise; when the reply holds no    *)
(* JSON object that parses, they return the empty document: empty lists    *)
(* under credit_card_recommendations, loan_recommendations and             *)
(* other_recommendations, respectively under recommendations.              *)
(***************************************************************************)
\* some part of the text is a JSON object
HoldsJsonObject(text) ==
    \E i \in 1..Len(text), j \in 1..Len(text) :
        /\ i <= j
        /\ json_loads(SubSeq(text, i, j)).ok
        /\ json_loads(SubSeq(text, i, j)).value.type = "dict"

NoJsonObject(outcome) == outcome.raises \/ ~HoldsJsonObject(outcome.text)

Recommended == pc \in {"recommended", "saved"}

C24_NoJsonObjectGivesEmptyDocument ==
    /\ (pc = "raised" => ~llm.loads)
    /\ Recommended =>
           /\ recommendations.product.calls <= 1
           /\ recommendations.card.calls <= 1
           /\ NoJsonObject(llm.product) =>
                  recommendations.product.value = EmptyProductRecommendations
           /\ NoJsonObject(llm.card) =>
                  recommendations.card.value = EmptyCardRecommendations

(***************************************************************************)
(* C26: update_recommendations writes every tag that a post of the new     *)
(* posts file has a keyword of to user_interests.json and to the Interests *)
(* field of kyc_details.json: the set it leaves is the set it found        *)
(* united with the tags of the new posts.                                  *)
(***************************************************************************)
\* the tags of the posts of a file
TagsOfFile(file) ==
    IF file.status = "ok" /\ file.table.has_content
    THEN UNION {ContentInterests(file.table.posts[i]) : i \in DOMAIN file.table.posts}
    ELSE {}

C26_NewPostTagsPersisted ==
    [][(RunCompletes /\ pc' = "updated") =>
          /\ Range(output'["user_interests"].content)
                 = Range(PersistedInterests) \cup TagsOfFile(new_posts')
          /\ \A tag \in TagsOfFile(new_posts') :
                 Contains(Get(output'["kyc_details"].content, "Interests"), tag)]_vars

====
